---- MODULE Spec2Model ----
(***************************************************************************)
(* Model of contracts/agent-metadata/src/lib.rs: the legacy error mapping, *)
(* the CID / hash predicates, MetadataValidator and the convenience        *)
(* functions.  MetadataParser, MetadataBuilder, ParserConfig and           *)
(* ValidationError live in the common-utils crate; they are modelled from  *)
(* the design document (sections 4.1-4.4 and 7).                           *)
(***************************************************************************)
EXTENDS Integers, Sequences, FiniteSets, TLC

VARIABLES
    validator,   \* the MetadataValidator in scope: the ParserConfig its parser holds
    op,          \* name of the last operation that ran to completion
    args,        \* the arguments that operation was called with
    res,         \* what it returned
    tpc,         \* per thread: position inside validate_and_parse
    targs,       \* per thread: arguments of the call in progress
    tres         \* per thread: result of the last finished call

vars == <<validator, op, args, res, tpc, targs, tres>>

(***************************************************************************)
(* Bounds of the model                                                     *)
(***************************************************************************)
MaxExtra == 2          \* longest extra_fields sequence drawn
NumThreads == 2        \* threads calling into one shared validator

(***************************************************************************)
(* Program constants                                                       *)
(***************************************************************************)
MAX_CID_LENGTH == 100
MIN_CID_LENGTH == 10
MAX_HASH_LENGTH == 128
MIN_HASH_LENGTH == 32

(***************************************************************************)
(* Bytes: a soroban Bytes value is a finite sequence of octets.            *)
(***************************************************************************)
Rep(c, n) == [i \in 1..n |-> c]

\* octets used: 81 'Q', 97 'a' (a hex digit), 122 'z' (not a hex digit)
CidLens == {0, 2, 9, 10, 46, 100, 101}
HashLens == {0, 3, 31, 32, 42, 128, 129}

CidInputs == {Rep(81, n) : n \in CidLens}
HashInputs == {Rep(97, n) : n \in HashLens}
                 \cup {Rep(122, 6), Rep(122, 42)}
\* equal and unequal lengths; two of length 42 differ in the last octet only
VerifyInputs == {<<>>, Rep(97, 3), Rep(97, 42), Rep(122, 42),
                 Append(Rep(97, 41), 122), Rep(97, 129)}

\* the narrower draws used by the operations that take a whole record
CidRecInputs == {Rep(81, n) : n \in {9, 10, 101}}
HashRecInputs == {Rep(97, n) : n \in {31, 32, 129}} \cup {Rep(122, 42)}
NameInputs == {<<>>, <<84>>}
DescInputs == {<<>>, <<68>>}
VersionInputs == {<<>>, <<49>>}
\* two pairs with the same key
PairInputs == {<< <<107>>, <<1>> >>, << <<107>>, <<2>> >>}
ExtraInputs == UNION {[1..n -> PairInputs] : n \in 0..MaxExtra}

(***************************************************************************)
(* Error taxonomy                                                          *)
(***************************************************************************)
\* enum MetadataError (legacy)
MetadataError ==
    { "MetadataError::InvalidJsonFormat", "MetadataError::MissingRequiredField",
      "MetadataError::InvalidCidFormat", "MetadataError::HashVerificationFailed",
      "MetadataError::InvalidStructure", "MetadataError::CidTooLong",
      "MetadataError::HashTooLong" }

\* common_utils::error::ValidationError (canonical), design section 7
ValidationError ==
    { "ValidationError::InvalidJsonStructure", "ValidationError::MissingRequiredField",
      "ValidationError::InvalidCidFormat", "ValidationError::InvalidHashFormat",
      "ValidationError::InvalidFormat", "ValidationError::InvalidLength",
      "ValidationError::HashVerificationFailed" }

\* what a match yields for a variant it has no arm for
NoMatchArm == "no match arm"

to_validation_error(e) ==
    CASE e = "MetadataError::InvalidJsonFormat" -> "ValidationError::InvalidJsonStructure"
      [] e = "MetadataError::MissingRequiredField" -> "ValidationError::MissingRequiredField"
      [] e = "MetadataError::InvalidCidFormat" -> "ValidationError::InvalidCidFormat"
      [] e = "MetadataError::HashVerificationFailed" -> "ValidationError::InvalidHashFormat"
      [] e = "MetadataError::InvalidStructure" -> "ValidationError::InvalidFormat"
      [] e \in {"MetadataError::CidTooLong", "MetadataError::HashTooLong"} ->
             "ValidationError::InvalidLength"
      [] OTHER -> NoMatchArm

from_validation_error_lenAsHash(err) ==
    CASE err = "ValidationError::InvalidJsonStructure" -> "MetadataError::InvalidJsonFormat"
      [] err = "ValidationError::MissingRequiredField" -> "MetadataError::MissingRequiredField"
      [] err = "ValidationError::InvalidCidFormat" -> "MetadataError::InvalidCidFormat"
      [] err = "ValidationError::InvalidHashFormat" -> "MetadataError::HashVerificationFailed"
      [] err = "ValidationError::InvalidFormat" -> "MetadataError::InvalidStructure"
      [] err = "ValidationError::InvalidLength" -> "MetadataError::HashTooLong"
      [] OTHER -> NoMatchArm

from_validation_error(err) ==
    CASE err = "ValidationError::InvalidJsonStructure" -> "MetadataError::InvalidJsonFormat"
      [] err = "ValidationError::MissingRequiredField" -> "MetadataError::MissingRequiredField"
      [] err = "ValidationError::InvalidCidFormat" -> "MetadataError::InvalidCidFormat"
      [] err = "ValidationError::InvalidHashFormat" -> "MetadataError::HashVerificationFailed"
      [] err = "ValidationError::InvalidFormat" -> "MetadataError::InvalidStructure"
      [] err = "ValidationError::InvalidLength" -> "MetadataError::CidTooLong"
      [] OTHER -> NoMatchArm

(***************************************************************************)
(* Result values.  checked lists the fields whose validator ran, in order. *)
(***************************************************************************)
Unit == "()"
Ok(v, checked) == [ok |-> TRUE, val |-> v, err |-> "-", checked |-> checked]
Err(e, checked) == [ok |-> FALSE, val |-> Unit, err |-> e, checked |-> checked]
\* Result::map_err(MetadataError::from_validation_error)
MapErr(r) == IF r.ok THEN r ELSE [r EXCEPT !.err = from_validation_error(@)]
\* Result::map(|_| ())
MapUnit(r) == IF r.ok THEN [r EXCEPT !.val = Unit] ELSE r

(***************************************************************************)
(* cid::is_valid_cid, hash::is_valid_hash                                  *)
(***************************************************************************)
is_valid_cid_offByOne(cid) ==
    LET len == Len(cid) IN
    IF len <= MIN_CID_LENGTH \/ len > MAX_CID_LENGTH THEN FALSE
    ELSE len >= MIN_CID_LENGTH /\ len <= MAX_CID_LENGTH

is_valid_cid(cid) ==
    LET len == Len(cid) IN
    IF len < MIN_CID_LENGTH \/ len > MAX_CID_LENGTH THEN FALSE
    ELSE len >= MIN_CID_LENGTH /\ len <= MAX_CID_LENGTH

is_valid_hash_offByOne(hash) ==
    LET len == Len(hash) IN
    IF len < MIN_HASH_LENGTH \/ len >= MAX_HASH_LENGTH THEN FALSE
    ELSE len >= MIN_HASH_LENGTH /\ len <= MAX_HASH_LENGTH

is_valid_hash(hash) ==
    LET len == Len(hash) IN
    IF len < MIN_HASH_LENGTH \/ len > MAX_HASH_LENGTH THEN FALSE
    ELSE len >= MIN_HASH_LENGTH /\ len <= MAX_HASH_LENGTH

(***************************************************************************)
(* common_utils::parser (design sections 4.1 - 4.3)                        *)
(***************************************************************************)
\* Option<u32>: None is the empty sequence, Some(n) is <<n>>
Unset == <<>>
MIN_CID_LEN == 10
MAX_CID_LEN == 100
MIN_HASH_LEN == 32
MAX_HASH_LEN == 128

\* ParserConfig: four independent length-bound overrides, each optional
ParserConfig_default ==
    [min_cid |-> Unset, max_cid |-> Unset, min_hash |-> Unset, max_hash |-> Unset]

OrDefault(v, d) == IF v = Unset THEN d ELSE v[1]
min_cid_len(config) == OrDefault(config.min_cid, MIN_CID_LEN)
max_cid_len(config) == OrDefault(config.max_cid, MAX_CID_LEN)
min_hash_len(config) == OrDefault(config.min_hash, MIN_HASH_LEN)
max_hash_len(config) == OrDefault(config.max_hash, MAX_HASH_LEN)

\* the configurations drawn by with_config
ConfigInputs ==
    { ParserConfig_default,
      [ParserConfig_default EXCEPT !.min_cid = <<9>>, !.max_hash = <<129>>],
      [ParserConfig_default EXCEPT !.max_cid = <<47>>, !.min_hash = <<43>>] }

\* MetadataParser::new / MetadataParser::with_config: the parser is its config
MetadataParser_new == ParserConfig_default
MetadataParser_with_config(config) == config

\* validate_required_text
validate_required_text(bytes, field) ==
    IF Len(bytes) = 0
    THEN Err("ValidationError::MissingRequiredField", <<field>>)
    ELSE Ok(bytes, <<field>>)

\* MetadataParser::parse_cid
parse_cid(config, cid) ==
    IF Len(cid) < min_cid_len(config) \/ Len(cid) > max_cid_len(config)
    THEN Err("ValidationError::InvalidLength", <<"json_cid">>)
    ELSE Ok(cid, <<"json_cid">>)

\* MetadataParser::parse_hash
parse_hash(config, hash) ==
    IF Len(hash) < min_hash_len(config) \/ Len(hash) > max_hash_len(config)
    THEN Err("ValidationError::InvalidLength", <<"model_hash">>)
    ELSE Ok(hash, <<"model_hash">>)

\* MetadataParser::parse_metadata: content id, then hash, then name; the
\* remaining fields pass through
parse_metadata(config, json_cid, model_hash, name, description, version, extra_fields) ==
    LET c == parse_cid(config, json_cid)
        h == parse_hash(config, model_hash)
        n == validate_required_text(name, "name")
    IN  IF ~c.ok THEN c
        ELSE IF ~h.ok THEN Err(h.err, c.checked \o h.checked)
        ELSE IF ~n.ok THEN Err(n.err, c.checked \o h.checked \o n.checked)
        ELSE Ok([json_cid |-> c.val, model_hash |-> h.val, name |-> n.val,
                 description |-> description, version |-> version,
                 extra_fields |-> extra_fields],
                c.checked \o h.checked \o n.checked)

\* MetadataBuilder: a staging record; a field never supplied is empty
MetadataBuilder_new ==
    [json_cid |-> <<>>, model_hash |-> <<>>, name |-> <<>>,
     description |-> <<>>, version |-> <<>>, extra_fields |-> <<>>]
with_cid(b, v) == [b EXCEPT !.json_cid = v]
with_hash(b, v) == [b EXCEPT !.model_hash = v]
with_name(b, v) == [b EXCEPT !.name = v]
with_description(b, v) == [b EXCEPT !.description = v]
with_version(b, v) == [b EXCEPT !.version = v]
\* MetadataBuilder::build: the parser's sequence over the staged values
build(b) ==
    parse_metadata(ParserConfig_default, b.json_cid, b.model_hash, b.name,
                   b.description, b.version, b.extra_fields)

(***************************************************************************)
(* AgentMetadata                                                           *)
(***************************************************************************)
from_parsed_swapped(parsed) ==
    [json_cid |-> parsed.json_cid, model_hash |-> parsed.model_hash,
     name |-> parsed.name, description |-> parsed.version,
     version |-> parsed.description, extra_fields |-> parsed.extra_fields]

from_parsed_cidHashSwapped(parsed) ==
    [json_cid |-> parsed.model_hash, model_hash |-> parsed.json_cid,
     name |-> parsed.name, description |-> parsed.description,
     version |-> parsed.version, extra_fields |-> parsed.extra_fields]

from_parsed(parsed) ==
    [json_cid |-> parsed.json_cid, model_hash |-> parsed.model_hash,
     name |-> parsed.name, description |-> parsed.description,
     version |-> parsed.version, extra_fields |-> parsed.extra_fields]

\* Result::map(AgentMetadata::from_parsed)
MapParsed(r) == IF r.ok THEN [r EXCEPT !.val = from_parsed(@)] ELSE r

(***************************************************************************)
(* MetadataValidator                                                       *)
(***************************************************************************)
MetadataValidator_new == [parser |-> MetadataParser_new]
MetadataValidator_with_config(config) == [parser |-> MetadataParser_with_config(config)]

validate_and_parse(self, json_cid, model_hash, name, description, version, extra_fields) ==
    LET parsed == MapErr(parse_metadata(self.parser, json_cid, model_hash, name,
                                        description, version, extra_fields))
    IN  IF ~parsed.ok THEN parsed
        ELSE Ok(from_parsed(parsed.val), parsed.checked)

validate_cid(self, cid) == MapErr(MapUnit(parse_cid(self.parser, cid)))

validate_model_hash(self, hash) == MapErr(MapUnit(parse_hash(self.parser, hash)))

verify_hash(self, provided_hash, expected_hash) ==
    IF provided_hash = expected_hash
    THEN Ok(Unit, <<>>)
    ELSE Err("MetadataError::HashVerificationFailed", <<>>)

(***************************************************************************)
(* mod convenience                                                         *)
(***************************************************************************)
validate_metadata_quick(json_cid, model_hash, name, description, version) ==
    LET v == MetadataValidator_new
        empty_fields == <<>>
    IN  validate_and_parse(v, json_cid, model_hash, name, description, version,
                           empty_fields)

validate_cid_and_hash_hashFirst(json_cid, model_hash) ==
    LET v == MetadataValidator_new
        c == validate_cid(v, json_cid)
        h == validate_model_hash(v, model_hash)
    IN  IF ~h.ok THEN h
        ELSE IF ~c.ok THEN Err(c.err, h.checked \o c.checked)
        ELSE Ok(Unit, h.checked \o c.checked)

validate_cid_and_hash(json_cid, model_hash) ==
    LET v == MetadataValidator_new
        c == validate_cid(v, json_cid)
        h == validate_model_hash(v, model_hash)
    IN  IF ~c.ok THEN c
        ELSE IF ~h.ok THEN Err(h.err, c.checked \o h.checked)
        ELSE Ok(Unit, c.checked \o h.checked)

build_metadata_noVersion(json_cid, model_hash, name, description, version) ==
    MapErr(MapParsed(build(
        with_description(with_name(with_hash(with_cid(
            MetadataBuilder_new, json_cid), model_hash), name), description))))

build_metadata(json_cid, model_hash, name, description, version) ==
    MapErr(MapParsed(build(
        with_version(with_description(with_name(with_hash(with_cid(
            MetadataBuilder_new, json_cid), model_hash), name), description), version))))

(***************************************************************************)
(* State machine: one caller, one operation at a time                      *)
(***************************************************************************)
Threads == 1..NumThreads
NoArgs == <<>>
Idle == [ok |-> TRUE, val |-> Unit, err |-> "-", checked |-> <<>>]

Init ==
    /\ validator = MetadataValidator_new
    /\ op = "default"
    /\ args = NoArgs
    /\ res = Idle
    /\ tpc = [t \in Threads |-> "idle"]
    /\ targs = [t \in Threads |-> NoArgs]
    /\ tres = [t \in Threads |-> Idle]

ThreadsUnchanged == UNCHANGED <<tpc, targs, tres>>

Returned(name, a, r) ==
    /\ op' = name
    /\ args' = a
    /\ res' = r

\* MetadataValidator::new()
New ==
    /\ validator' = MetadataValidator_new
    /\ Returned("new", NoArgs, Idle)
    /\ ThreadsUnchanged

\* MetadataValidator::with_config(config)
WithConfig ==
    \E config \in ConfigInputs :
        /\ validator' = MetadataValidator_with_config(config)
        /\ Returned("with_config", [config |-> config], Idle)
        /\ ThreadsUnchanged

RecordArgs(c, h, n, d, v, x) ==
    [json_cid |-> c, model_hash |-> h, name |-> n, description |-> d,
     version |-> v, extra_fields |-> x]

\* validator.validate_and_parse(env, ...)
ValidateAndParse ==
    \E c \in CidRecInputs, h \in HashRecInputs, n \in NameInputs,
       d \in DescInputs, v \in VersionInputs, x \in ExtraInputs :
        /\ Returned("validate_and_parse", RecordArgs(c, h, n, d, v, x),
                    validate_and_parse(validator, c, h, n, d, v, x))
        /\ UNCHANGED validator
        /\ ThreadsUnchanged

\* validator.validate_cid(env, &cid)
ValidateCid ==
    \E b \in CidInputs :
        /\ Returned("validate_cid", [cid |-> b], validate_cid(validator, b))
        /\ UNCHANGED validator
        /\ ThreadsUnchanged

\* validator.validate_model_hash(env, &hash)
ValidateModelHash ==
    \E b \in HashInputs :
        /\ Returned("validate_model_hash", [hash |-> b],
                    validate_model_hash(validator, b))
        /\ UNCHANGED validator
        /\ ThreadsUnchanged

\* validator.verify_hash(&provided, &expected)
VerifyHash ==
    \E a \in VerifyInputs, b \in VerifyInputs :
        /\ Returned("verify_hash", [provided_hash |-> a, expected_hash |-> b],
                    verify_hash(validator, a, b))
        /\ UNCHANGED validator
        /\ ThreadsUnchanged

\* convenience::validate_metadata_quick
ValidateMetadataQuick ==
    \E c \in CidRecInputs, h \in HashRecInputs, n \in NameInputs,
       d \in DescInputs, v \in VersionInputs :
        /\ Returned("validate_metadata_quick", RecordArgs(c, h, n, d, v, <<>>),
                    validate_metadata_quick(c, h, n, d, v))
        /\ UNCHANGED validator
        /\ ThreadsUnchanged

\* convenience::validate_cid_and_hash
ValidateCidAndHash ==
    \E c \in CidRecInputs, h \in HashRecInputs :
        /\ Returned("validate_cid_and_hash", [json_cid |-> c, model_hash |-> h],
                    validate_cid_and_hash(c, h))
        /\ UNCHANGED validator
        /\ ThreadsUnchanged

\* convenience::build_metadata
BuildMetadata ==
    \E c \in CidRecInputs, h \in HashRecInputs, n \in NameInputs,
       d \in DescInputs, v \in VersionInputs :
        /\ Returned("build_metadata", RecordArgs(c, h, n, d, v, <<>>),
                    build_metadata(c, h, n, d, v))
        /\ UNCHANGED validator
        /\ ThreadsUnchanged

\* cid::is_valid_cid
IsValidCid ==
    \E b \in CidInputs :
        /\ Returned("is_valid_cid", [cid |-> b], is_valid_cid(b))
        /\ UNCHANGED validator
        /\ ThreadsUnchanged

\* hash::is_valid_hash
IsValidHash ==
    \E b \in HashInputs :
        /\ Returned("is_valid_hash", [hash |-> b], is_valid_hash(b))
        /\ UNCHANGED validator
        /\ ThreadsUnchanged

\* MetadataError::to_validation_error
ToValidationError ==
    \E e \in MetadataError :
        /\ Returned("to_validation_error", [e |-> e], to_validation_error(e))
        /\ UNCHANGED validator
        /\ ThreadsUnchanged

\* MetadataError::from_validation_error
FromValidationError ==
    \E k \in ValidationError :
        /\ Returned("from_validation_error", [err |-> k], from_validation_error(k))
        /\ UNCHANGED validator
        /\ ThreadsUnchanged

Next ==
    \/ New
    \/ WithConfig
    \/ ValidateAndParse
    \/ ValidateCid
    \/ ValidateModelHash
    \/ VerifyHash
    \/ ValidateMetadataQuick
    \/ ValidateCidAndHash
    \/ BuildMetadata
    \/ IsValidCid
    \/ IsValidHash
    \/ ToValidationError
    \/ FromValidationError

Spec == Init /\ [][Next]_vars

(***************************************************************************)
(* Properties                                                              *)
(***************************************************************************)
RecordOps == {"validate_and_parse", "validate_metadata_quick", "build_metadata"}
\* the configuration the last record operation validated against
ConfigUsed == IF op = "validate_and_parse" THEN validator.parser ELSE ParserConfig_default
CidOutOfBounds(config, b) ==
    Len(b) < min_cid_len(config) \/ Len(b) > max_cid_len(config)
HashOutOfBounds(config, b) ==
    Len(b) < min_hash_len(config) \/ Len(b) > max_hash_len(config)
LengthError == "MetadataError::CidTooLong"

\* C1: the error reported is that of the first failing field in the order
\* content id, hash, name: with a CID out of bounds the CID validator's
\* error is returned and the hash validator never runs; with a CID in
\* bounds and a hash out of bounds the length error is returned, never
\* MissingRequiredField, whatever the name; the name is judged last.
C1_FirstFailingFieldWins ==
    /\ op \in RecordOps =>
        LET cidBad == CidOutOfBounds(ConfigUsed, args.json_cid)
            hashBad == HashOutOfBounds(ConfigUsed, args.model_hash)
        IN  /\ cidBad =>
                /\ ~res.ok /\ res.err = LengthError
                /\ res.checked = <<"json_cid">>
            /\ (~cidBad /\ hashBad) =>
                /\ ~res.ok /\ res.err = LengthError
                /\ res.err # "MetadataError::MissingRequiredField"
                /\ res.checked = <<"json_cid", "model_hash">>
            /\ (~cidBad /\ ~hashBad /\ args.name = <<>>) =>
                /\ ~res.ok /\ res.err = "MetadataError::MissingRequiredField"
                /\ res.checked = <<"json_cid", "model_hash", "name">>
            /\ (~cidBad /\ ~hashBad /\ args.name # <<>>) => res.ok
    /\ op = "validate_cid_and_hash" =>
        LET cidBad == CidOutOfBounds(ParserConfig_default, args.json_cid)
            hashBad == HashOutOfBounds(ParserConfig_default, args.model_hash)
        IN  /\ cidBad =>
                /\ ~res.ok /\ res.err = LengthError
                /\ res.checked = <<"json_cid">>
            /\ (~cidBad /\ hashBad) =>
                /\ ~res.ok /\ res.err = LengthError
                /\ res.checked = <<"json_cid", "model_hash">>
            /\ (~cidBad /\ ~hashBad) => res.ok

\* a CID and a hash both out of bounds, handed to validate_cid_and_hash
C1_Witness ==
    /\ op = "validate_cid_and_hash"
    /\ Len(args.json_cid) = 9 /\ Len(args.model_hash) = 31
    /\ ~res.ok /\ res.checked = <<"json_cid">>

\* C2: build_metadata and validate_metadata_quick return the same result
\* on the same five fields: the same AgentMetadata or the same error kind.
C2_BuilderEqualsParser ==
    /\ op = "build_metadata" =>
        LET q == validate_metadata_quick(args.json_cid, args.model_hash, args.name,
                                         args.description, args.version)
        IN  /\ res.ok = q.ok
            /\ res.ok => res.val = q.val
            /\ ~res.ok => res.err = q.err
    /\ op = "validate_metadata_quick" =>
        LET b == build_metadata(args.json_cid, args.model_hash, args.name,
                                args.description, args.version)
        IN  /\ res.ok = b.ok
            /\ res.ok => res.val = b.val
            /\ ~res.ok => res.err = b.err

\* build_metadata succeeded on a full record
C2_Witness ==
    /\ op = "build_metadata" /\ res.ok
    /\ res.val.name # <<>> /\ res.val.description # <<>> /\ res.val.version # <<>>

\* C3 as stated: every record returned as Ok, by a validator made with
\* new() or with any with_config(config), has 10 <= len(json_cid) <= 100,
\* 32 <= len(model_hash) <= 128 and a non-empty name.
C3_DefaultBoundsWhateverTheConfig ==
    (op \in RecordOps /\ res.ok) =>
        /\ Len(res.val.json_cid) >= 10 /\ Len(res.val.json_cid) <= 100
        /\ Len(res.val.model_hash) >= 32 /\ Len(res.val.model_hash) <= 128
        /\ res.val.name # <<>>

\* C3 amended: every record returned as Ok has a non-empty name and has
\* json_cid and model_hash within the length bounds of the configuration it
\* was validated against; these are 10..100 and 32..128 for new(),
\* validate_metadata_quick, build_metadata and every bound a with_config
\* configuration leaves unset.
C3_ConfiguredBounds ==
    (op \in RecordOps /\ res.ok) =>
        /\ Len(res.val.json_cid) >= min_cid_len(ConfigUsed)
        /\ Len(res.val.json_cid) <= max_cid_len(ConfigUsed)
        /\ Len(res.val.model_hash) >= min_hash_len(ConfigUsed)
        /\ Len(res.val.model_hash) <= max_hash_len(ConfigUsed)
        /\ res.val.name # <<>>
        /\ ConfigUsed.min_cid = Unset => Len(res.val.json_cid) >= 10
        /\ ConfigUsed.max_cid = Unset => Len(res.val.json_cid) <= 100
        /\ ConfigUsed.min_hash = Unset => Len(res.val.model_hash) >= 32
        /\ ConfigUsed.max_hash = Unset => Len(res.val.model_hash) <= 128

\* a validator with overridden bounds returned a record
C3_Witness ==
    /\ op = "validate_and_parse" /\ res.ok
    /\ validator.parser # ParserConfig_default
    /\ Len(res.val.json_cid) = 9

\* C4: when validate_and_parse succeeds every field of the record equals
\* the input: the five byte fields unchanged and extra_fields the same
\* pairs in the same order, none dropped or deduplicated.
C4_FieldsEqualInputs ==
    (op = "validate_and_parse" /\ res.ok) =>
        /\ res.val.json_cid = args.json_cid
        /\ res.val.model_hash = args.model_hash
        /\ res.val.name = args.name
        /\ res.val.description = args.description
        /\ res.val.version = args.version
        /\ Len(res.val.extra_fields) = Len(args.extra_fields)
        /\ \A i \in 1..Len(args.extra_fields) :
              res.val.extra_fields[i] = args.extra_fields[i]

\* success with two extra pairs that share a key, the second first
C4_Witness ==
    /\ op = "validate_and_parse" /\ res.ok
    /\ Len(res.val.extra_fields) = 2
    /\ res.val.extra_fields[1] = << <<107>>, <<2>> >>
    /\ res.val.extra_fields[2] = << <<107>>, <<1>> >>
    /\ res.val.description # res.val.version

\* C5 as stated: validate_cid(b) is Ok exactly when is_valid_cid(b), that
\* is when 10 <= len(b) <= 100, on every validator; otherwise it fails
\* with the invalid-length kind.
C5_ValidateCidIsDefaultBounds ==
    op = "validate_cid" =>
        /\ res.ok <=> is_valid_cid(args.cid)
        /\ res.ok <=> (Len(args.cid) >= 10 /\ Len(args.cid) <= 100)
        /\ ~res.ok =>
            /\ res.err = LengthError
            /\ to_validation_error(res.err) = "ValidationError::InvalidLength"

\* C5 amended: is_valid_cid(b) is true exactly when 10 <= len(b) <= 100;
\* validate_cid(b) is Ok exactly when len(b) lies within the CID bounds of
\* the validator's configuration, which for new() and for a configuration
\* that overrides neither CID bound is exactly when is_valid_cid(b);
\* otherwise it fails with the invalid-length kind.
C5_ValidateCidIsConfiguredBounds ==
    /\ op = "is_valid_cid" =>
        (res <=> (Len(args.cid) >= 10 /\ Len(args.cid) <= 100))
    /\ op = "validate_cid" =>
        /\ res.ok <=> ~CidOutOfBounds(validator.parser, args.cid)
        /\ (validator.parser.min_cid = Unset /\ validator.parser.max_cid = Unset) =>
              (res.ok <=> is_valid_cid(args.cid))
        /\ ~res.ok =>
            /\ res.err = LengthError
            /\ to_validation_error(res.err) = "ValidationError::InvalidLength"

\* the empty CID rejected by a validator made with new()
C5_Witness ==
    /\ op = "validate_cid" /\ validator = MetadataValidator_new
    /\ args.cid = <<>> /\ ~res.ok

\* C6 as stated: validate_model_hash(b) is Ok exactly when
\* is_valid_hash(b), that is when 32 <= len(b) <= 128 whatever the bytes,
\* on every validator; otherwise it fails with the invalid-length kind.
C6_ValidateHashIsDefaultBounds ==
    op = "validate_model_hash" =>
        /\ res.ok <=> is_valid_hash(args.hash)
        /\ res.ok <=> (Len(args.hash) >= 32 /\ Len(args.hash) <= 128)
        /\ ~res.ok =>
            /\ res.err = LengthError
            /\ to_validation_error(res.err) = "ValidationError::InvalidLength"

\* C6 amended: is_valid_hash(b) is true exactly when 32 <= len(b) <= 128,
\* whatever the bytes; validate_model_hash(b) is Ok exactly when len(b)
\* lies within the hash bounds of the validator's configuration, which for
\* new() and for a configuration that overrides neither hash bound is
\* exactly when is_valid_hash(b); otherwise it fails with the
\* invalid-length kind.
C6_ValidateHashIsConfiguredBounds ==
    /\ op = "is_valid_hash" =>
        (res <=> (Len(args.hash) >= 32 /\ Len(args.hash) <= 128))
    /\ op = "validate_model_hash" =>
        /\ res.ok <=> ~HashOutOfBounds(validator.parser, args.hash)
        /\ (validator.parser.min_hash = Unset /\ validator.parser.max_hash = Unset) =>
              (res.ok <=> is_valid_hash(args.hash))
        /\ ~res.ok =>
            /\ res.err = LengthError
            /\ to_validation_error(res.err) = "ValidationError::InvalidLength"

\* 42 octets that are not hex digits accepted by a validator made with new()
C6_Witness ==
    /\ op = "validate_model_hash" /\ validator = MetadataValidator_new
    /\ args.hash = Rep(122, 42) /\ res.ok

\* C7: verify_hash(a, b) is Ok exactly when a = b; otherwise it fails with
\* legacy HashVerificationFailed, whose canonical kind is
\* HashVerificationFailed and no format or length kind.
C7_VerifyHashDedicatedKind ==
    op = "verify_hash" =>
        /\ res.ok <=> (args.provided_hash = args.expected_hash)
        /\ ~res.ok =>
            /\ res.err = "MetadataError::HashVerificationFailed"
            /\ to_validation_error(res.err) = "ValidationError::HashVerificationFailed"

\* C8: from_validation_error maps each of the seven canonical kinds to a
\* legacy kind, and to_validation_error maps that legacy kind back to it.
C8_CanonicalRoundTrip ==
    op = "from_validation_error" =>
        /\ res \in MetadataError
        /\ to_validation_error(res) = args.err

\* C10: no public operation returns HashTooLong; every length failure is
\* reported as CidTooLong; from_validation_error(to_validation_error(e)) is
\* CidTooLong for e = HashTooLong and e for every other legacy kind.
PublicOps ==
    RecordOps \cup {"validate_cid", "validate_model_hash", "verify_hash",
                    "validate_cid_and_hash"}
C10_HashTooLongNeverReturned ==
    /\ (op \in PublicOps /\ ~res.ok) =>
        /\ res.err # "MetadataError::HashTooLong"
        /\ res.err \in MetadataError
    /\ (op \in {"validate_model_hash", "validate_cid"} /\ ~res.ok) =>
        res.err = "MetadataError::CidTooLong"
    /\ (op \in RecordOps \cup {"validate_cid_and_hash"} /\ ~res.ok
          /\ res.checked \in {<<"json_cid">>, <<"json_cid", "model_hash">>}) =>
        res.err = "MetadataError::CidTooLong"
    /\ op = "to_validation_error" =>
        from_validation_error(res) =
            IF args.e = "MetadataError::HashTooLong"
            THEN "MetadataError::CidTooLong" ELSE args.e

\* a hash of 129 octets rejected as CidTooLong
C10_Witness ==
    /\ op = "validate_model_hash" /\ Len(args.hash) = 129
    /\ ~res.ok /\ res.err = "MetadataError::CidTooLong"

(***************************************************************************)
(* State machine: threads calling into one shared validator.  A call of    *)
(* validate_and_parse advances field by field, so the calls of different   *)
(* threads interleave between fields.                                      *)
(***************************************************************************)
TCidInputs == {Rep(81, 9), Rep(81, 10)}
THashInputs == {Rep(97, 32), Rep(97, 129)}
THashPairs == {<<Rep(97, 32), Rep(97, 32)>>, <<Rep(97, 32), Rep(122, 32)>>,
               <<Rep(97, 32), Rep(97, 129)>>}

\* the validator is built, then shared by reference
InitConc ==
    /\ validator \in {MetadataValidator_with_config(c) : c \in ConfigInputs}
    /\ op = "shared"
    /\ args = NoArgs
    /\ res = Idle
    /\ tpc = [t \in Threads |-> "idle"]
    /\ targs = [t \in Threads |-> NoArgs]
    /\ tres = [t \in Threads |-> Idle]

CallerUnchanged == UNCHANGED <<op, args, res>>
Free(t) == tpc[t] \in {"idle", "done"}

\* thread t enters validator.validate_and_parse(env, ...)
TValidateAndParse(t) ==
    /\ Free(t)
    /\ \E c \in TCidInputs, h \in THashInputs, n \in NameInputs :
          targs' = [targs EXCEPT ![t] =
                      [op |-> "validate_and_parse", json_cid |-> c, model_hash |-> h,
                       name |-> n, description |-> <<68>>, version |-> <<49>>,
                       extra_fields |-> << << <<107>>, <<1>> >> >>]]
    /\ tpc' = [tpc EXCEPT ![t] = "parse_cid"]
    /\ tres' = [tres EXCEPT ![t] = Idle]
    /\ UNCHANGED validator
    /\ CallerUnchanged

\* parse_metadata, first field
TParseCid(t) ==
    /\ tpc[t] = "parse_cid"
    /\ LET c == parse_cid(validator.parser, targs[t].json_cid)
       IN  IF ~c.ok
           THEN /\ tres' = [tres EXCEPT ![t] = MapErr(c)]
                /\ tpc' = [tpc EXCEPT ![t] = "done"]
           ELSE /\ tres' = [tres EXCEPT ![t] = [Idle EXCEPT !.checked = c.checked]]
                /\ tpc' = [tpc EXCEPT ![t] = "parse_hash"]
    /\ UNCHANGED <<validator, targs>>
    /\ CallerUnchanged

\* parse_metadata, second field
TParseHash(t) ==
    /\ tpc[t] = "parse_hash"
    /\ LET h == parse_hash(validator.parser, targs[t].model_hash)
           seen == tres[t].checked \o h.checked
       IN  IF ~h.ok
           THEN /\ tres' = [tres EXCEPT ![t] = MapErr(Err(h.err, seen))]
                /\ tpc' = [tpc EXCEPT ![t] = "done"]
           ELSE /\ tres' = [tres EXCEPT ![t] = [Idle EXCEPT !.checked = seen]]
                /\ tpc' = [tpc EXCEPT ![t] = "parse_name"]
    /\ UNCHANGED <<validator, targs>>
    /\ CallerUnchanged

\* parse_metadata, third field, and the conversion of the parsed record
TParseName(t) ==
    /\ tpc[t] = "parse_name"
    /\ LET a == targs[t]
           n == validate_required_text(a.name, "name")
           seen == tres[t].checked \o n.checked
       IN  tres' = [tres EXCEPT ![t] =
                      IF ~n.ok THEN MapErr(Err(n.err, seen))
                      ELSE Ok(from_parsed(a), seen)]
    /\ tpc' = [tpc EXCEPT ![t] = "done"]
    /\ UNCHANGED <<validator, targs>>
    /\ CallerUnchanged

\* thread t runs validator.validate_cid(env, &cid)
TValidateCid_caching(t) ==
    /\ Free(t)
    /\ \E b \in TCidInputs :
          /\ targs' = [targs EXCEPT ![t] = [op |-> "validate_cid", cid |-> b]]
          /\ tres' = [tres EXCEPT ![t] = validate_cid(validator, b)]
          /\ validator' = [parser |-> [validator.parser EXCEPT !.min_cid = <<Len(b)>>]]
    /\ tpc' = [tpc EXCEPT ![t] = "done"]
    /\ CallerUnchanged

TValidateCid(t) ==
    /\ Free(t)
    /\ \E b \in TCidInputs :
          /\ targs' = [targs EXCEPT ![t] = [op |-> "validate_cid", cid |-> b]]
          /\ tres' = [tres EXCEPT ![t] = validate_cid(validator, b)]
    /\ tpc' = [tpc EXCEPT ![t] = "done"]
    /\ UNCHANGED validator
    /\ CallerUnchanged

\* thread t runs validator.validate_model_hash(env, &hash)
TValidateModelHash(t) ==
    /\ Free(t)
    /\ \E b \in THashInputs :
          /\ targs' = [targs EXCEPT ![t] = [op |-> "validate_model_hash", hash |-> b]]
          /\ tres' = [tres EXCEPT ![t] = validate_model_hash(validator, b)]
    /\ tpc' = [tpc EXCEPT ![t] = "done"]
    /\ UNCHANGED validator
    /\ CallerUnchanged

\* thread t runs validator.verify_hash(&provided, &expected)
TVerifyHash(t) ==
    /\ Free(t)
    /\ \E ab \in THashPairs :
          /\ targs' = [targs EXCEPT ![t] =
                         [op |-> "verify_hash", provided_hash |-> ab[1],
                          expected_hash |-> ab[2]]]
          /\ tres' = [tres EXCEPT ![t] = verify_hash(validator, ab[1], ab[2])]
    /\ tpc' = [tpc EXCEPT ![t] = "done"]
    /\ UNCHANGED validator
    /\ CallerUnchanged

NextConc ==
    \E t \in Threads :
        \/ TValidateAndParse(t)
        \/ TParseCid(t)
        \/ TParseHash(t)
        \/ TParseName(t)
        \/ TValidateCid(t)
        \/ TValidateModelHash(t)
        \/ TVerifyHash(t)

SpecConc == InitConc /\ [][NextConc]_vars

\* what the call a would return on validator v were it the only call ever made
Alone(v, a) ==
    CASE a.op = "validate_and_parse" ->
            validate_and_parse(v, a.json_cid, a.model_hash, a.name, a.description,
                               a.version, a.extra_fields)
      [] a.op = "validate_cid" -> validate_cid(v, a.cid)
      [] a.op = "validate_model_hash" -> validate_model_hash(v, a.hash)
      [] a.op = "verify_hash" -> verify_hash(v, a.provided_hash, a.expected_hash)

====
